---- MODULE Spec2Model ----
(***************************************************************************)
(* Model of the AD9910 DDS channel driver (artiq/coredevice/ad9910.py):    *)
(* the bus framer (write32, read32, write64), construction and init, the   *)
(* phase-mode engine of set_mu, the SYNC_IN delay search of                *)
(* tune_sync_delay and the IO_UPDATE alignment scan of                     *)
(* tune_io_update_delay.                                                   *)
(*                                                                         *)
(* Machine words are int32 values kept in -2^31 .. 2^31-1 with wrapping    *)
(* arithmetic; the 64-bit timeline cursor is a record [h, l] standing for  *)
(* h * 2^31 + l with l in 0 .. 2^31-1.                                     *)
(***************************************************************************)
EXTENDS Integers, Sequences, FiniteSets, TLC

VARIABLES
    phase_mode,       \* self.phase_mode
    sysclk_per_mu,    \* self.sysclk_per_mu
    io_update_delay,  \* self.io_update_delay
    bus,              \* timeline cost of one bus phase: [a: 8-bit phase, d: 32-bit phase]
    now,              \* the timeline cursor (now_mu)
    trace,            \* register writes and pulses issued by the last set_mu call
    ret,              \* value returned by the last set_mu call
    call,             \* the last set_mu call: arguments, entry state, word written, result
    prev,             \* the set_mu call before the last one (kept by SpecPeriod only)
    last_set,         \* argument of the most recent set_phase_mode call (history)
    chain,            \* set_mu calls made since the caller last positioned the cursor
    tpc,              \* tune_sync_delay: "idle", "run", "ret" or "fail"
    seed,             \* tune_sync_delay: sync_delay_seed argument
    wi,               \* tune_sync_delay: outer loop variable (range index)
    di,               \* tune_sync_delay: inner loop variable (range index)
    errfn,            \* behaviour of the SMP_ERR status bit of this channel
    msync,            \* last (in_delay, window) written to the MSYNC register (set_sync)
    clears,           \* number of clear_smp_err calls made by the running call
    probes,           \* number of status reads made by the running call
    probed,           \* the (in_delay, window) pairs at which the status was read
    tlog,             \* set_sync, clear_smp_err and sta_read calls of the running call, in order
    clear_seen,       \* whether some status read of the call had SMP_ERR clear
    result,           \* the pair returned by tune_sync_delay
    cfr1,             \* last value written to CFR1: <<>> before the first write, else <<v>>
    cfr2,             \* last value written to CFR2, likewise
    xfer,             \* the last framer operation: bus phases issued, word shifted in, result
    cs_open,          \* whether the bus is inside a transaction (no SPI_END phase yet)
    cstate,           \* construction: "none", "ok" or "failed"
    cfg,              \* arguments of the constructor and the clocks of its environment
    ipc,              \* init: "idle", "poll", "tune", "done", "fail_id", "fail_lock", "fail_sync"
    blind,            \* init: the blind argument
    ilog,             \* init: register accesses, pulses, delays and status reads issued
    polls,            \* init: status reads made by the lock wait
    acall,            \* the alignment call that produced trace, NoAlign if none did
    peer_phase_mode   \* self.phase_mode of another AD9910 instance

setvars == <<phase_mode, sysclk_per_mu, io_update_delay, bus, now, trace, ret,
             call, prev, last_set, chain>>
tunevars == <<tpc, seed, wi, di, errfn, msync, clears, probes, probed, tlog,
              clear_seen, result>>
regvars == <<cfr1, cfr2>>
framevars == <<xfer, cs_open>>
initvars == <<cstate, cfg, ipc, blind, ilog, polls>>
vars == <<phase_mode, sysclk_per_mu, io_update_delay, bus, now, trace, ret,
          call, prev, last_set, chain,
          tpc, seed, wi, di, errfn, msync, clears, probes, probed, tlog, clear_seen,
          result,
          cfr1, cfr2, xfer, cs_open, cstate, cfg, ipc, blind, ilog, polls, acall,
          peer_phase_mode>>

---------------------------------------------------------------------------
(* Constants of the driver                                                 *)

_PHASE_MODE_DEFAULT == -1
PHASE_MODE_CONTINUOUS == 0
PHASE_MODE_ABSOLUTE == 1
PHASE_MODE_TRACKING == 2

_AD9910_REG_CFR1 == 0
_AD9910_REG_CFR2 == 1
_AD9910_REG_CFR3 == 2
_AD9910_REG_AUX_DAC == 3
_AD9910_REG_IO_UPD == 4
_AD9910_REG_FTW == 7
_AD9910_REG_POW == 8
_AD9910_REG_ASF == 9
_AD9910_REG_MSYNC == 10
_AD9910_REG_DRAMPL == 11
_AD9910_REG_DRAMPS == 12
_AD9910_REG_DRAMPR == 13
_AD9910_REG_PR0 == 14
_AD9910_REG_PR1 == 15
_AD9910_REG_PR2 == 16
_AD9910_REG_PR3 == 17
_AD9910_REG_PR4 == 18
_AD9910_REG_PR5 == 19
_AD9910_REG_PR6 == 20
_AD9910_REG_PR7 == 21
_AD9910_REG_RAM == 22

\* the register map
RegisterMap ==
    {_AD9910_REG_CFR1, _AD9910_REG_CFR2, _AD9910_REG_CFR3, _AD9910_REG_AUX_DAC,
     _AD9910_REG_IO_UPD, _AD9910_REG_FTW, _AD9910_REG_POW, _AD9910_REG_ASF,
     _AD9910_REG_MSYNC, _AD9910_REG_DRAMPL, _AD9910_REG_DRAMPS, _AD9910_REG_DRAMPR,
     _AD9910_REG_PR0, _AD9910_REG_PR1, _AD9910_REG_PR2, _AD9910_REG_PR3,
     _AD9910_REG_PR4, _AD9910_REG_PR5, _AD9910_REG_PR6, _AD9910_REG_PR7,
     _AD9910_REG_RAM}

PhaseModes == {PHASE_MODE_CONTINUOUS, PHASE_MODE_ABSOLUTE, PHASE_MODE_TRACKING}

---------------------------------------------------------------------------
(* int32 arithmetic                                                        *)

MinInt32 == -2147483647 - 1

Lo16(x) == x % 65536
Hi16(x) == (x \div 65536) % 65536

\* the int32 whose unsigned halves are h and l (both in 0..65535)
Make32(h, l) == IF h >= 32768 THEN (h - 65536) * 65536 + l ELSE h * 65536 + l

Add32(a, b) ==
    LET lo == Lo16(a) + Lo16(b)
        hi == Hi16(a) + Hi16(b) + (lo \div 65536)
    IN  Make32(hi % 65536, lo % 65536)

Sub32(a, b) ==
    LET lo == Lo16(a) - Lo16(b)
        hi == Hi16(a) - Hi16(b) + (lo \div 65536)
    IN  Make32(hi % 65536, lo % 65536)

\* x * y mod 2^16, for x, y in 0..65535, without leaving 31 bits
MulLo16(x, y) == ((((x \div 256) * y) % 256) * 256 + (x % 256) * y) % 65536

\* int32 product with wraparound
Mul32(a, b) ==
    LET al == Lo16(a)
        ah == Hi16(a)
        bl == Lo16(b)
        bh == Hi16(b)
        u  == (al \div 256) * bl
        v  == (al % 256) * bl
        s  == u + (v \div 256)
        plo == (s % 256) * 256 + (v % 256)
        phi == s \div 256
    IN  Make32((phi + MulLo16(ah, bl) + MulLo16(al, bh)) % 65536, plo)

\* x >> 16 on int32 (arithmetic shift)
Sar16(x) == x \div 65536

\* x << 16 on int32
Shl16(x) == Make32(Lo16(x), 0)

\* the bitwise or of the low n bits of x and y (x, y >= 0)
RECURSIVE OrBits(_, _, _)
OrBits(x, y, n) ==
    IF n = 0 THEN 0
    ELSE (IF (x \div (2 ^ (n - 1))) % 2 = 1 \/ (y \div (2 ^ (n - 1))) % 2 = 1
          THEN 2 ^ (n - 1) ELSE 0) + OrBits(x, y, n - 1)

\* a | b on int32
Or32(a, b) == Make32(OrBits(Hi16(a), Hi16(b), 16), OrBits(Lo16(a), Lo16(b), 16))

\* bit k of the two's complement word x
Bit(x, k) == IF k = 31 THEN (IF x < 0 THEN 1 ELSE 0) ELSE (x \div (2 ^ k)) % 2

\* x << 24 on int32
Shl24(x) == (IF x % 256 >= 128 THEN (x % 256) - 256 ELSE x % 256) * 16777216

---------------------------------------------------------------------------
(* The 64-bit timeline                                                     *)

Time(h, l) == [h |-> h, l |-> l]

\* int32(t): the low 32 bits of t, signed
Int32OfTime(t) == IF t.h % 2 = 0 THEN t.l ELSE t.l + MinInt32

\* t < 0
TimeNeg(t) == t.h < 0

\* mutant: the cursor is aligned to the coarse period of 8
AlignCoarseEight(t) == Time(t.h, t.l - (t.l % 8))

\* mutant: the cursor is aligned upwards
AlignCoarseUp(t) == Time(t.h, t.l + ((16 - (t.l % 16)) % 16))

\* t & ~0xf
AlignCoarse(t) == Time(t.h, t.l - (t.l % 16))

\* t + d for 0 <= d < 2^31
TimeAdd(t, d) ==
    IF t.l > 2147483647 - d
    THEN Time(t.h + 1, (t.l - 2147483647) + (d - 1))
    ELSE Time(t.h, t.l + d)

---------------------------------------------------------------------------
(* Input domains of the model                                              *)

\* set_mu calls the caller chains without repositioning the timeline cursor
MaxChain == 1

\* channel configurations: sysclk_per_mu, io_update_delay and the timeline
\* cost of an 8-bit (a) and a 32-bit (d) bus phase
ConfigSet ==
    { [spm |-> 1, iod |-> 0, a |-> 160, d |-> 544],
      [spm |-> 4, iod |-> 3, a |-> 3,   d |-> 5],
      [spm |-> 1, iod |-> 2, a |-> 1,   d |-> 1] }

FtwSet == {1, 65536, 305419896, MinInt32}
PowSet == {0, 40000}
AsfSet == {16383}
ModeArgs == {_PHASE_MODE_DEFAULT} \cup PhaseModes
NoRefTime == Time(-1, 2147483647)
RefSet == {NoRefTime, Time(0, 0), Time(0, 100), Time(1, 5)}
NowSet == {Time(0, 21), Time(0, 65557), Time(1, 7)}

\* domains of the periodicity specification
FtwSetP == {1, 65536, 268435456, MinInt32}
PowSetP == {4660}
RefSetP == {NoRefTime, Time(0, 0), Time(0, 34)}
NowSetP == {Time(0, 21), Time(0, 65557), Time(2, 5)}

\* no alignment call made yet
NoAlign == [op |-> "none", d0 |-> 0, rd |-> <<>>, delays |-> <<>>, outcome |-> "none",
            ret |-> 0]

\* the arguments of a default construction on a 100 MHz reference, with
\* ref_period (in ns) rp
DefaultCfg(rp) ==
    [chip_select |-> 4, pll_n |-> 40, pll_cp |-> 7, pll_vco |-> 5,
     sync_delay_seed |-> -1, refclk |-> 100, ref_period |-> rp]

NoCall ==
    [valid |-> FALSE, ftw |-> 0, pow |-> 0, asf |-> 0, pm |-> _PHASE_MODE_DEFAULT,
     ref |-> NoRefTime, entry |-> Time(0, 0), mode |-> PHASE_MODE_CONTINUOUS,
     hist |-> PHASE_MODE_CONTINUOUS, high |-> 0, out |-> 0]

---------------------------------------------------------------------------
(* The bus framer: write32, read32, write64                                *)

\* one bus phase: set_config_mu(flags, length, div, chip_select) and write(data);
\* end and input stand for the SPI_END and SPI_INPUT flags, rd for the read
\* clock divider SPIT_DDS_RD
Phase(end, input, length, rd, data) ==
    [end |-> end, input |-> input, len |-> length, rd |-> rd, data |-> data]

\* mutant: the address phase already carries SPI_END
Write32PhasesEndEarly(addr, data) ==
    << Phase(TRUE, FALSE, 8, FALSE, Shl24(addr)),
       Phase(TRUE, FALSE, 32, FALSE, data) >>

Write32Phases(addr, data) ==
    << Phase(FALSE, FALSE, 8, FALSE, Shl24(addr)),
       Phase(TRUE, FALSE, 32, FALSE, data) >>

\* mutant: the read flag is not set in the address byte
Read32PhasesNoFlag(addr) ==
    << Phase(FALSE, FALSE, 8, FALSE, Shl24(addr)),
       Phase(TRUE, TRUE, 32, TRUE, 0) >>

Read32Phases(addr) ==
    << Phase(FALSE, FALSE, 8, FALSE, Shl24(Or32(addr, 128))),
       Phase(TRUE, TRUE, 32, TRUE, 0) >>

Write64Phases(addr, data_high, data_low) ==
    << Phase(FALSE, FALSE, 8, FALSE, Shl24(addr)),
       Phase(FALSE, FALSE, 32, FALSE, data_high),
       Phase(TRUE, FALSE, 32, FALSE, data_low) >>

\* the bus is inside a transaction after a phase without SPI_END
RECURSIVE OpenAfter(_, _)
OpenAfter(open, phases) ==
    IF phases = <<>> THEN open
    ELSE OpenAfter(~Head(phases).end, Tail(phases))

NoXfer == [op |-> "none", addr |-> 0, hi |-> 0, lo |-> 0, phases |-> <<>>,
           shifted |-> 0, ret |-> 0]

DataSet == {2, 8194, -1, MinInt32}
LowSet == {0, -1}

OtherIdle ==
    /\ UNCHANGED setvars
    /\ UNCHANGED tunevars

Write32(addr, data) ==
    LET ph == Write32Phases(addr, data)
    IN  /\ xfer' = [op |-> "write32", addr |-> addr, hi |-> 0, lo |-> data,
                    phases |-> ph, shifted |-> 0, ret |-> 0]
        /\ cs_open' = OpenAfter(cs_open, ph)
        /\ cfr1' = IF addr = _AD9910_REG_CFR1 THEN <<data>> ELSE cfr1
        /\ cfr2' = IF addr = _AD9910_REG_CFR2 THEN <<data>> ELSE cfr2
        /\ OtherIdle
        /\ UNCHANGED initvars
        /\ UNCHANGED <<acall, peer_phase_mode>>

\* w: the word the device shifts out during the input phase
Read32(addr, w) ==
    LET ph == Read32Phases(addr)
    IN  /\ xfer' = [op |-> "read32", addr |-> addr, hi |-> 0, lo |-> 0,
                    phases |-> ph, shifted |-> w, ret |-> w]
        /\ cs_open' = OpenAfter(cs_open, ph)
        /\ OtherIdle
        /\ UNCHANGED regvars
        /\ UNCHANGED initvars
        /\ UNCHANGED <<acall, peer_phase_mode>>

Write64(addr, data_high, data_low) ==
    LET ph == Write64Phases(addr, data_high, data_low)
    IN  /\ xfer' = [op |-> "write64", addr |-> addr, hi |-> data_high, lo |-> data_low,
                    phases |-> ph, shifted |-> 0, ret |-> 0]
        /\ cs_open' = OpenAfter(cs_open, ph)
        /\ OtherIdle
        /\ UNCHANGED regvars
        /\ UNCHANGED initvars
        /\ UNCHANGED <<acall, peer_phase_mode>>

---------------------------------------------------------------------------
(* set_phase_mode and set_mu                                               *)

EvWrite32(t, addr, data) ==
    [op |-> "write32", addr |-> addr, hi |-> 0, lo |-> data, t |-> t]
EvWrite64(t, addr, high, low) ==
    [op |-> "write64", addr |-> addr, hi |-> high, lo |-> low, t |-> t]
EvPulse(t, len) ==
    [op |-> "pulse", addr |-> -1, hi |-> 0, lo |-> len, t |-> t]

\* timeline cursor after a write32 / write64 issued at t
AfterWrite32(t) == TimeAdd(t, bus.a + bus.d)
AfterWrite64(t) == TimeAdd(t, bus.a + 2 * bus.d)

\* timeline cursor after a read32 issued at t
AfterRead32(t) == TimeAdd(t, bus.a + bus.d)

\* timeline cost of a read of the CPLD status register
StaReadCost == bus.d

\* durations in machine units: n microseconds, n milliseconds
Us(n) == (n * 1000) \div cfg.ref_period
Ms(n) == Us(1000 * n)

\* the steps of an operation on the timeline, before they are given a time
StWrite32(addr, data) == [op |-> "write32", addr |-> addr, hi |-> 0, lo |-> data]
StWrite64(addr, high, low) == [op |-> "write64", addr |-> addr, hi |-> high, lo |-> low]
StRead32(addr, w) == [op |-> "read32", addr |-> addr, hi |-> 0, lo |-> w]
StPulse(len) == [op |-> "pulse", addr |-> -1, hi |-> 0, lo |-> len]
StDelay(len) == [op |-> "delay", addr |-> -1, hi |-> 0, lo |-> len]
StStaRead(w) == [op |-> "sta_read", addr |-> -1, hi |-> 0, lo |-> w]

\* the timeline cost of a step
StepDur(st) ==
    CASE st.op = "write32"  -> bus.a + bus.d
      [] st.op = "write64"  -> bus.a + 2 * bus.d
      [] st.op = "read32"   -> bus.a + bus.d
      [] st.op = "pulse"    -> st.lo
      [] st.op = "delay"    -> st.lo
      [] st.op = "sta_read" -> StaReadCost

\* the timeline cost of the first n steps of sts
RECURSIVE SumDur(_, _)
SumDur(sts, n) == IF n = 0 THEN 0 ELSE StepDur(sts[n]) + SumDur(sts, n - 1)

\* the events of the steps sts, issued one after the other from t on
Timed(sts, t) ==
    [i \in 1..Len(sts) |->
        [op |-> sts[i].op, addr |-> sts[i].addr, hi |-> sts[i].hi, lo |-> sts[i].lo,
         t |-> TimeAdd(t, SumDur(sts, i - 1))]]

\* the cursor after the steps sts
EndTime(sts, t) == TimeAdd(t, SumDur(sts, Len(sts)))

\* the default phase mode according to the history of set_phase_mode calls
HistDefault == IF last_set = _PHASE_MODE_DEFAULT THEN PHASE_MODE_CONTINUOUS ELSE last_set

\* mutant: an override of 0 (Continuous) is taken as "not given"
EffectiveModeFalsy(pm, dflt) == IF pm <= 0 THEN dflt ELSE pm

EffectiveMode(pm, dflt) == IF pm = _PHASE_MODE_DEFAULT THEN dflt ELSE pm

\* mutant: the default fiducial is applied in every mode
FiducialZeroInAnyMode(mode, ref) == IF TimeNeg(ref) THEN Time(0, 0) ELSE ref

Fiducial(mode, ref) ==
    IF mode = PHASE_MODE_TRACKING /\ TimeNeg(ref) THEN Time(0, 0) ELSE ref

\* mutant: the sysclk_per_mu factor is dropped
TrackingCorrectionNoSysclk(tnow, ref, ftw, spm) ==
    LET delta == Sub32(Int32OfTime(tnow), Int32OfTime(ref))
    IN  Sar16(Mul32(delta, ftw))

\* mutant: the shift is applied before the multiplication by ftw
TrackingCorrectionShiftFirst(tnow, ref, ftw, spm) ==
    LET delta == Sub32(Int32OfTime(tnow), Int32OfTime(ref))
    IN  Mul32(Sar16(Mul32(delta, spm)), ftw)

\* dt*ftw*self.sysclk_per_mu >> 16 with dt (delta) = int32(now_mu()) - int32(ref_time)
TrackingCorrection(tnow, ref, ftw, spm) ==
    LET delta == Sub32(Int32OfTime(tnow), Int32OfTime(ref))
    IN  Sar16(Mul32(Mul32(delta, ftw), spm))

\* mutant: the correction is applied to a given reference time in every mode
PhaseOffsetAnyMode(mode, pow, ftw, tnow, ref, spm) ==
    IF ~TimeNeg(ref)
    THEN Add32(pow, Sar16(Mul32(Mul32(Sub32(Int32OfTime(tnow), Int32OfTime(ref)), ftw), spm)))
    ELSE pow

\* the value of pow after the phase-mode branch of set_mu
PhaseOffset(mode, pow, ftw, tnow, ref, spm) ==
    IF mode # PHASE_MODE_CONTINUOUS
    THEN LET r == Fiducial(mode, ref)
         IN  IF ~TimeNeg(r)
             THEN Add32(pow, TrackingCorrection(tnow, r, ftw, spm))
             ELSE pow
    ELSE pow

\* mutant: the accumulator clear is armed whatever the mode
ArmEventsAlways(mode, t) == <<EvWrite32(t, _AD9910_REG_CFR1, 8194)>>

ArmEvents(mode, t) ==
    IF mode # PHASE_MODE_CONTINUOUS
    THEN <<EvWrite32(t, _AD9910_REG_CFR1, 8194)>>
    ELSE <<>>

\* mutant: the second CFR1 write repeats the arming value
DisarmEventsStillArmed(mode, t) ==
    IF mode # PHASE_MODE_CONTINUOUS
    THEN <<EvWrite32(t, _AD9910_REG_CFR1, 8194)>>
    ELSE <<>>

DisarmEvents(mode, t) ==
    IF mode # PHASE_MODE_CONTINUOUS
    THEN <<EvWrite32(t, _AD9910_REG_CFR1, 2)>>
    ELSE <<>>

\* (asf << 16) | pow
ProfileHigh(asf, pow) == Or32(Shl16(asf), pow)

\* the cursor after the writes in evs, each a write32, issued from t on
AfterEvents(evs, t) == IF evs = <<>> THEN t ELSE AfterWrite32(t)

\* the operations on the channel leave the framer log and the bring-up alone
HwIdle ==
    /\ UNCHANGED framevars
    /\ UNCHANGED initvars
    /\ UNCHANGED peer_phase_mode

\* the last value written to the register at addr by the events evs, else old
LastWritten(evs, addr, old) ==
    LET ws == {i \in 1..Len(evs) : evs[i].op = "write32" /\ evs[i].addr = addr}
    IN  IF ws = {} THEN old
        ELSE <<evs[CHOOSE i \in ws : \A k \in ws : k <= i].lo>>

\* mutant: the default phase mode is shared by the instances
SetPhaseModeShared(m) ==
    /\ phase_mode' = m
    /\ peer_phase_mode' = m
    /\ last_set' = m
    /\ UNCHANGED <<sysclk_per_mu, io_update_delay, bus, now, trace, ret, call, prev, chain>>
    /\ UNCHANGED tunevars
    /\ UNCHANGED regvars
    /\ UNCHANGED acall
    /\ UNCHANGED framevars
    /\ UNCHANGED initvars

SetPhaseMode(m) ==
    /\ phase_mode' = m
    /\ last_set' = m
    /\ UNCHANGED <<sysclk_per_mu, io_update_delay, bus, now, trace, ret, call, prev, chain>>
    /\ UNCHANGED tunevars
    /\ UNCHANGED regvars
    /\ UNCHANGED acall
    /\ HwIdle

SetMuBody(ftw, pow, asf, pm, ref) ==
    LET mode == EffectiveMode(pm, phase_mode)
        t0   == AlignCoarse(now)
        arm  == ArmEvents(mode, t0)
        t1   == AfterEvents(arm, t0)
        pw   == PhaseOffset(mode, pow, ftw, t1, ref, sysclk_per_mu)
        t2   == AfterWrite64(t1)
        t3   == TimeAdd(t2, io_update_delay)
        t4   == TimeAdd(t3, 8)
        t5   == AlignCoarse(t4)
        dis  == DisarmEvents(mode, t5)
        high == ProfileHigh(asf, pw)
    IN  /\ chain < MaxChain
        /\ chain' = chain + 1
        /\ trace' = arm \o <<EvWrite64(t1, _AD9910_REG_PR0, high, ftw),
                             EvPulse(t3, 8)>> \o dis
        /\ now' = AfterEvents(dis, t5)
        /\ ret' = pw
        /\ call' = [valid |-> TRUE, ftw |-> ftw, pow |-> pow, asf |-> asf, pm |-> pm,
                    ref |-> ref, entry |-> now, mode |-> mode, hist |-> HistDefault,
                    high |-> high, out |-> pw]
        /\ cfr1' = LastWritten(arm \o dis, _AD9910_REG_CFR1, cfr1)
        /\ UNCHANGED <<phase_mode, sysclk_per_mu, io_update_delay, bus, last_set>>
        /\ UNCHANGED tunevars
        /\ UNCHANGED cfr2
        /\ HwIdle

SetMu(ftw, pow, asf, pm, ref) ==
    /\ SetMuBody(ftw, pow, asf, pm, ref)
    /\ acall' = NoAlign
    /\ UNCHANGED prev

\* the caller moves the timeline cursor (at_mu)
AtMuBody(t) ==
    /\ now' = t
    /\ chain' = 0
    /\ UNCHANGED <<phase_mode, sysclk_per_mu, io_update_delay, bus, last_set>>
    /\ UNCHANGED tunevars
    /\ UNCHANGED regvars
    /\ HwIdle

\* ... and a new record of the last call starts
AtMu(t) ==
    /\ AtMuBody(t)
    /\ trace' = <<>>
    /\ ret' = 0
    /\ call' = NoCall
    /\ acall' = NoAlign
    /\ UNCHANGED prev

\* ... while the record of the last two calls is kept
AtMuKeep(t) ==
    /\ AtMuBody(t)
    /\ UNCHANGED <<trace, ret, call, prev, acall>>

\* set_mu, remembering the call before it
SetMuAfter(ftw, pow, asf, pm, ref) ==
    /\ SetMuBody(ftw, pow, asf, pm, ref)
    /\ prev' = call
    /\ acall' = NoAlign

\* no tune_sync_delay call made yet; f is the behaviour of the SMP_ERR bit
TuneIdleWith(f) ==
    /\ tpc = "idle" /\ seed = 0 /\ wi = 0 /\ di = 0
    /\ errfn = f
    /\ msync = <<-1, -1>> /\ clears = 0 /\ probes = 0 /\ probed = {} /\ clear_seen = FALSE
    /\ tlog = <<>>
    /\ result = <<-1, -1>>

TuneIdle == TuneIdleWith([kind |-> "any", d0 |-> 0, d1 |-> 0, wmin |-> 0])

InitChannelWith(configs) ==
    /\ phase_mode = PHASE_MODE_CONTINUOUS
    /\ last_set = _PHASE_MODE_DEFAULT
    /\ \E c \in configs :
          /\ sysclk_per_mu = c.spm
          /\ io_update_delay = c.iod
          /\ bus = [a |-> c.a, d |-> c.d]
          /\ cfg = DefaultCfg(c.spm)
    /\ cstate = "ok"
    /\ ipc = "idle" /\ blind = FALSE /\ ilog = <<>> /\ polls = 0
    /\ cfr1 = <<>> /\ cfr2 = <<>>
    /\ xfer = NoXfer /\ cs_open = FALSE
    /\ acall = NoAlign
    /\ peer_phase_mode = PHASE_MODE_CONTINUOUS
    /\ now = Time(0, 0)
    /\ trace = <<>>
    /\ ret = 0
    /\ call = NoCall
    /\ prev = NoCall
    /\ chain = 0

InitChannel == InitChannelWith(ConfigSet)

Init == InitChannel /\ TuneIdle

Next ==
    \/ \E m \in PhaseModes : SetPhaseMode(m)
    \/ \E t \in NowSet : AtMu(t)
    \/ \E ftw \in FtwSet, pow \in PowSet, asf \in AsfSet, pm \in ModeArgs, ref \in RefSet :
          SetMu(ftw, pow, asf, pm, ref)

Spec == Init /\ [][Next]_vars

\* pairs of Tracking calls, for the periodicity of the phase correction
NextPeriod ==
    \/ \E t \in NowSetP : AtMuKeep(t)
    \/ \E ftw \in FtwSetP, pow \in PowSetP, asf \in AsfSet, ref \in RefSetP :
          SetMuAfter(ftw, pow, asf, PHASE_MODE_TRACKING, ref)

SpecPeriod == Init /\ [][NextPeriod]_vars

\* register transactions on the bus
NextBus ==
    \/ \E addr \in RegisterMap, data \in DataSet : Write32(addr, data)
    \/ \E addr \in RegisterMap, w \in DataSet : Read32(addr, w)
    \/ \E addr \in RegisterMap, h \in DataSet, l \in LowSet : Write64(addr, h, l)

InitBus ==
    /\ InitChannelWith({[spm |-> 1, iod |-> 0, a |-> 160, d |-> 544]})
    /\ TuneIdle

SpecBus == InitBus /\ [][NextBus]_vars

---------------------------------------------------------------------------
(* tune_sync_delay                                                         *)

dt == 14
max_delay == dt
max_window == (dt \div 4) + 1
min_window == 1

\* longest run of error-free delay taps of a synthetic SMP_ERR behaviour, less one
MaxRangeLen == 1

SeedSet == {0, 9, 28, 38, 40}
TapSet == {0, 2, 5, 9, 15, 16, 21, 31}

\* pairs of separate error-free delay taps
PairSet == {<<7, 11>>, <<5, 15>>, <<2, 15>>, <<21, 31>>}

\* behaviours of the SMP_ERR bit: arbitrary at every read ("any"), clear
\* exactly for the delay taps d0..d1 at windows >= wmin ("range"), or clear
\* exactly at the two taps d0 and d1 at windows >= wmin ("pair")
AnyErr == [kind |-> "any", d0 |-> 0, d1 |-> 0, wmin |-> 0]
ErrFns ==
    {AnyErr} \cup
    { f \in { [kind |-> "range", d0 |-> d, d1 |-> d + n, wmin |-> w] :
                d \in TapSet, n \in 0..MaxRangeLen, w \in 1..(max_window + 1) } :
        f.d1 <= 31 } \cup
    { [kind |-> "pair", d0 |-> p[1], d1 |-> p[2], wmin |-> w] :
        p \in PairSet, w \in {1, max_window} }

\* the values a read of this channel's SMP_ERR bit can give at (in_delay, window)
ErrReadings(in_delay, window) ==
    IF errfn.kind = "any" THEN {0, 1}
    ELSE IF errfn.kind = "pair"
    THEN IF in_delay \in {errfn.d0, errfn.d1} /\ window >= errfn.wmin THEN {0} ELSE {1}
    ELSE IF errfn.d0 <= in_delay /\ in_delay <= errfn.d1 /\ window >= errfn.wmin
         THEN {0} ELSE {1}

\* mutant: one window size too many is scanned
NumWindowsOneMore == max_window - min_window + 2

\* number of iterations of the outer loop
NumWindows == max_window - min_window + 1

\* mutant: the search direction does not alternate
InDelayAscending(s, i) == s + (i \div 2)

\* mutant: the upper tap of each distance is tried before the lower one
InDelayUpFirst(s, i) == s + (IF i % 2 = 1 THEN (i + 1) \div 2 ELSE -(i \div 2))

\* the delay tap of inner iteration i: alternate search direction around the seed
InDelay(s, i) == s + ((IF i % 2 = 1 THEN -i ELSE i) \div 2)

\* mutant: the test of the error bit is inverted
IsClearInverted(err) == err % 2 # 0

\* not err & 1
IsClear(err) == err % 2 = 0

\* window of outer iteration w
WindowOf(w) == max_window - w

\* entry of tune_sync_delay
TuneStart(s) ==
    /\ tpc' = "run"
    /\ seed' = s
    /\ wi' = 0
    /\ di' = 0
    /\ clears' = 0
    /\ probes' = 0
    /\ probed' = {}
    /\ tlog' = <<>>
    /\ clear_seen' = FALSE
    /\ result' = <<-1, -1>>
    /\ UNCHANGED <<errfn, msync>>

\* a call by the user, who positions the timeline cursor first
TuneCall(s) ==
    /\ tpc # "run"
    /\ TuneStart(s)
    /\ now' = Time(0, 0)
    /\ UNCHANGED <<phase_mode, sysclk_per_mu, io_update_delay, bus, trace, ret,
                   call, prev, last_set, chain>>
    /\ UNCHANGED regvars
    /\ UNCHANGED acall
    /\ HwIdle

\* timeline cost of set_sync: one write32 to MSYNC
SetSyncCost == bus.a + bus.d

\* timeline cost of clear_smp_err: two writes to CFR2, each with a 1 us pulse
ClearSmpErrCost == 2 * (bus.a + bus.d) + 2 * Us(1)

\* the value clear_smp_err leaves in CFR2 (SMP_ERR monitoring enabled)
ClearSmpErrCfr2 == 16842752

\* one probe of the search: program, clear, read the status, wait 40 us
ProbeCost == SetSyncCost + ClearSmpErrCost + StaReadCost + Us(40)

\* after a clear read: program the relaxed window, clear, wait 40 us
RelaxCost == SetSyncCost + ClearSmpErrCost + Us(40)

\* the calls of one probe: set_sync, clear_smp_err, sta_read (err: the bit read)
TSetSync(d, w) == [op |-> "set_sync", d |-> d, w |-> w, err |-> 0]
TClear == [op |-> "clear_smp_err", d |-> 0, w |-> 0, err |-> 0]
TRead(d, w, err) == [op |-> "sta_read", d |-> d, w |-> w, err |-> err]
ProbeOps(d, w, err) == <<TSetSync(d, w), TClear, TRead(d, w, err)>>

\* mutant: the relaxed window is returned without being programmed
RelaxOpsNoWrite(d, w) == <<TClear>>

\* the calls after a clear read: program the relaxed window and clear again
RelaxOps(d, w) == <<TSetSync(d, w), TClear>>

\* continue with the next iteration, or raise ValueError after the last one
TuneAdvance ==
    IF di + 1 < max_delay
    THEN /\ di' = di + 1
         /\ UNCHANGED <<wi, tpc>>
    ELSE IF wi + 1 < NumWindows
    THEN /\ di' = 0
         /\ wi' = wi + 1
         /\ tpc' = tpc
    ELSE /\ tpc' = "fail"
         /\ UNCHANGED <<wi, di>>

\* one iteration of the inner loop
TuneStep ==
    /\ tpc = "run"
    /\ LET in_delay == InDelay(seed, di)
           window   == WindowOf(wi)
       IN  \/ /\ (in_delay < 0 \/ in_delay > 31)
              /\ TuneAdvance
              /\ UNCHANGED <<msync, clears, probes, probed, tlog, clear_seen, result, cfr2,
                             now>>
           \/ /\ ~(in_delay < 0 \/ in_delay > 31)
              /\ \E err \in ErrReadings(in_delay, window) :
                    /\ probes' = probes + 1
                    /\ probed' = probed \cup {<<in_delay, window>>}
                    /\ tlog' = tlog \o ProbeOps(in_delay, window, err)
                                    \o (IF IsClear(err)
                                        THEN RelaxOps(in_delay, window - min_window)
                                        ELSE <<>>)
                    /\ clear_seen' = (clear_seen \/ err = 0)
                    /\ cfr2' = <<ClearSmpErrCfr2>>
                    /\ IF IsClear(err)
                       THEN /\ now' = TimeAdd(now, ProbeCost + RelaxCost)
                            /\ msync' = <<in_delay, window - min_window>>
                            /\ clears' = clears + 2
                            /\ result' = <<in_delay, window - min_window>>
                            /\ tpc' = "ret"
                            /\ UNCHANGED <<wi, di>>
                       ELSE /\ now' = TimeAdd(now, ProbeCost)
                            /\ msync' = <<in_delay, window>>
                            /\ clears' = clears + 1
                            /\ TuneAdvance
                            /\ UNCHANGED result
    /\ UNCHANGED <<seed, errfn>>
    /\ UNCHANGED <<phase_mode, sysclk_per_mu, io_update_delay, bus, trace, ret,
                   call, prev, last_set, chain>>
    /\ UNCHANGED <<cfr1, acall, peer_phase_mode>>
    /\ UNCHANGED <<xfer, cs_open, cstate, cfg, blind, ilog, polls>>
    /\ UNCHANGED ipc

InitTune ==
    /\ InitChannelWith({[spm |-> 1, iod |-> 0, a |-> 160, d |-> 544]})
    /\ tpc = "idle" /\ seed = 0 /\ wi = 0 /\ di = 0
    /\ errfn \in ErrFns
    /\ msync = <<-1, -1>> /\ clears = 0 /\ probes = 0 /\ probed = {} /\ clear_seen = FALSE
    /\ tlog = <<>>
    /\ result = <<-1, -1>>

NextTune ==
    \/ \E s \in SeedSet : TuneCall(s)
    \/ TuneStep

SpecTune == InitTune /\ [][NextTune]_vars

\* the search runs on once started
SpecTuneFair == SpecTune /\ WF_vars(TuneStep)

---------------------------------------------------------------------------
(* Construction and init                                                   *)
(* Frequencies are in MHz and ref_period in ns; q stands for               *)
(* refclk * pll_n, four times the system clock.                            *)

\* (vco_min, vco_max) of each VCO range, in MHz
VcoBands ==
    << <<370, 510>>, <<420, 590>>, <<500, 700>>, <<600, 880>>, <<700, 950>>,
       <<820, 1150>> >>

ChipSelectValid(cs) == 3 <= cs /\ cs <= 7

\* mutant: the lower limit of the multiplier is not checked
PllNValidUpperOnly(n) == n <= 127

PllNValid(n) == 12 <= n /\ n <= 127

\* refclk/4 <= 60e6
RefclkValid(refclk) == refclk <= 4 * 60

\* sysclk <= 1e9
SysclkValid(q) == q <= 4 * 1000

\* sysclk_per_mu == sysclk*ref_period: a whole number of sysclk cycles per mu
TicksExact(q, rp) == (q * rp) % 4000 = 0

VcoValid(vco) == 0 <= vco /\ vco <= 5

\* vco_min <= sysclk/1e6 <= vco_max
VcoBandValid(vco, q) ==
    4 * VcoBands[vco + 1][1] <= q /\ q <= 4 * VcoBands[vco + 1][2]

CpValid(cp) == 0 <= cp /\ cp <= 7

\* the assertions of __init__, in their order
ConfigValid(c) ==
    /\ ChipSelectValid(c.chip_select)
    /\ PllNValid(c.pll_n)
    /\ RefclkValid(c.refclk)
    /\ SysclkValid(c.refclk * c.pll_n)
    /\ TicksExact(c.refclk * c.pll_n, c.ref_period)
    /\ VcoValid(c.pll_vco)
    /\ VcoBandValid(c.pll_vco, c.refclk * c.pll_n)
    /\ CpValid(c.pll_cp)

ChipSelectSet == {3, 4, 7, 8}
PllNSet == {10, 12, 40, 160}
PllVcoSet == {0, 4, 5, 6}
PllCpSet == {7}
SeedArgSet == {-1, 9}
RefclkSet == {25, 100, 200, 250}
RefPeriodSet == {1, 4}

CfgArgs ==
    [chip_select : ChipSelectSet, pll_n : PllNSet, pll_cp : PllCpSet,
     pll_vco : PllVcoSet, sync_delay_seed : SeedArgSet, refclk : RefclkSet,
     ref_period : RefPeriodSet]

\* AD9910(...): the constructor touches no hardware
Construct(c, iod) ==
    /\ cstate = "none"
    /\ cfg' = c
    /\ IF ConfigValid(c)
       THEN /\ cstate' = "ok"
            /\ sysclk_per_mu' = (c.refclk * c.pll_n * c.ref_period) \div 4000
            /\ io_update_delay' = iod
            /\ phase_mode' = PHASE_MODE_CONTINUOUS
       ELSE /\ cstate' = "failed"
            /\ UNCHANGED <<sysclk_per_mu, io_update_delay, phase_mode>>
    /\ UNCHANGED <<bus, now, trace, ret, call, prev, last_set, chain>>
    /\ UNCHANGED tunevars
    /\ UNCHANGED regvars
    /\ UNCHANGED framevars
    /\ UNCHANGED <<ipc, blind, ilog, polls, acall, peer_phase_mode>>

\* number of status reads of the lock wait
LockPolls == 100

\* the byte the AUX_DAC register holds after reset
AuxDacId == 127

AuxSet == {127, 32639, 0, 255, -129}

\* the PLL lock field of the status word as delivered to a channel: its own
\* bit clear and every other one set, or the reverse
LockWords(cs) == IF cs >= 4 THEN {15 - 2 ^ (cs - 4), 2 ^ (cs - 4)} ELSE {15}

\* mutant: the lock bit of any channel is accepted
LockSeenAnyChannel(lock, cs) == {lock # 0}

\* lock & (1 << self.chip_select - 4); the shift count is negative for
\* chip_select 3, and the result is then not defined
LockSeen(lock, cs) == IF cs >= 4 THEN {Bit(lock, cs - 4) = 1} ELSE {TRUE, FALSE}

\* cfr3 without the PFD reset bit
Cfr3Word ==
    Or32(Or32(Or32(134725888, Shl24(cfg.pll_vco)), cfg.pll_cp * 524288), cfg.pll_n * 2)

\* mutant: the identity is read back in blind mode too
InitHeadStepsAlwaysRead(b, aux) ==
    <<StWrite32(_AD9910_REG_CFR1, 2), StPulse(Us(1)), StDelay(Ms(1)),
      StRead32(_AD9910_REG_AUX_DAC, aux)>>

\* init up to and including the identity read
InitHeadSteps(b, aux) ==
    <<StWrite32(_AD9910_REG_CFR1, 2), StPulse(Us(1)), StDelay(Ms(1))>>
        \o (IF b THEN <<>> ELSE <<StRead32(_AD9910_REG_AUX_DAC, aux)>>)

\* mutant: the whole word is compared
IdMismatchWholeWord(aux) == aux # AuxDacId

\* aux_dac & 0xff != 0x7f
IdMismatch(aux) == aux % 256 # AuxDacId

\* mutant: the PFD reset is set by the second CFR3 write, not the first
InitPllStepsResetLast(b) ==
    (IF b THEN <<>> ELSE <<StDelay(Us(50))>>)
        \o <<StWrite32(_AD9910_REG_CFR2, 16843040), StPulse(Us(1)),
             StWrite32(_AD9910_REG_CFR3, Cfr3Word), StPulse(Us(1)),
             StWrite32(_AD9910_REG_CFR3, Or32(Cfr3Word, 1024)), StPulse(Us(1))>>
        \o (IF b THEN <<StDelay(Ms(100))>> ELSE <<>>)

\* from the identity check to the lock wait
InitPllSteps(b) ==
    (IF b THEN <<>> ELSE <<StDelay(Us(50))>>)
        \o <<StWrite32(_AD9910_REG_CFR2, 16843040), StPulse(Us(1)),
             StWrite32(_AD9910_REG_CFR3, Or32(Cfr3Word, 1024)), StPulse(Us(1)),
             StWrite32(_AD9910_REG_CFR3, Cfr3Word), StPulse(Us(1))>>
        \o (IF b THEN <<StDelay(Ms(100))>> ELSE <<>>)

\* mutant: the SYNC_IN delay is tuned whatever the seed
SeedConfiguredAlways == TRUE

\* if self.sync_delay_seed >= 0
SeedConfigured == cfg.sync_delay_seed >= 0

\* after the lock wait, having issued the steps sts: tune the SYNC_IN delay if
\* a seed is configured, and wait 1 ms
InitAfterLock(sts) ==
    IF SeedConfigured
    THEN /\ ipc' = "tune"
         /\ ilog' = ilog \o Timed(sts, now)
         /\ now' = EndTime(sts, now)
         /\ TuneStart(cfg.sync_delay_seed)
    ELSE /\ ipc' = "done"
         /\ ilog' = ilog \o Timed(sts \o <<StDelay(Ms(1))>>, now)
         /\ now' = EndTime(sts \o <<StDelay(Ms(1))>>, now)
         /\ UNCHANGED tunevars

\* init(blind) up to the lock wait; aux is the word the AUX_DAC read returns
InitCall(b, aux) ==
    /\ cstate = "ok"
    /\ ipc = "idle"
    /\ blind' = b
    /\ polls' = 0
    /\ IF ~b /\ IdMismatch(aux)
       THEN /\ ipc' = "fail_id"
            /\ ilog' = ilog \o Timed(InitHeadSteps(b, aux), now)
            /\ now' = EndTime(InitHeadSteps(b, aux), now)
            /\ cfr1' = <<2>>
            /\ UNCHANGED cfr2
            /\ UNCHANGED tunevars
       ELSE /\ cfr1' = <<2>>
            /\ cfr2' = <<16843040>>
            /\ IF b
               THEN InitAfterLock(InitHeadSteps(b, aux) \o InitPllSteps(b))
               ELSE /\ ipc' = "poll"
                    /\ ilog' = ilog \o Timed(InitHeadSteps(b, aux) \o InitPllSteps(b), now)
                    /\ now' = EndTime(InitHeadSteps(b, aux) \o InitPllSteps(b), now)
                    /\ UNCHANGED tunevars
    /\ UNCHANGED <<phase_mode, sysclk_per_mu, io_update_delay, bus, trace, ret,
                   call, prev, last_set, chain>>
    /\ UNCHANGED framevars
    /\ UNCHANGED <<cstate, cfg, acall, peer_phase_mode>>

\* one iteration of the lock wait; lock is the PLL lock field of the status read
InitPoll(lock) ==
    /\ ipc = "poll"
    /\ polls' = polls + 1
    /\ \E seen \in LockSeen(lock, cfg.chip_select) :
          IF seen
          THEN InitAfterLock(<<StStaRead(lock), StDelay(Ms(1))>>)
          ELSE /\ ilog' = ilog \o Timed(<<StStaRead(lock), StDelay(Ms(1))>>, now)
               /\ now' = EndTime(<<StStaRead(lock), StDelay(Ms(1))>>, now)
               /\ ipc' = IF polls >= LockPolls - 1 THEN "fail_lock" ELSE "poll"
               /\ UNCHANGED tunevars
    /\ UNCHANGED <<phase_mode, sysclk_per_mu, io_update_delay, bus, trace, ret,
                   call, prev, last_set, chain>>
    /\ UNCHANGED regvars
    /\ UNCHANGED framevars
    /\ UNCHANGED <<cstate, cfg, blind, acall, peer_phase_mode>>

\* tune_sync_delay has returned or raised inside init
InitAfterTune ==
    /\ ipc = "tune"
    /\ tpc \in {"ret", "fail"}
    /\ IF tpc = "ret"
       THEN /\ ipc' = "done"
            /\ ilog' = ilog \o Timed(<<StDelay(Ms(1))>>, now)
            /\ now' = EndTime(<<StDelay(Ms(1))>>, now)
       ELSE /\ ipc' = "fail_sync"
            /\ UNCHANGED <<ilog, now>>
    /\ UNCHANGED <<phase_mode, sysclk_per_mu, io_update_delay, bus, trace, ret,
                   call, prev, last_set, chain>>
    /\ UNCHANGED tunevars
    /\ UNCHANGED regvars
    /\ UNCHANGED framevars
    /\ UNCHANGED <<cstate, cfg, blind, polls, acall, peer_phase_mode>>

\* before construction; f is the behaviour of the SMP_ERR bit
InitBringupWith(f) ==
    /\ cstate = "none"
    /\ cfg = DefaultCfg(1)
    /\ phase_mode = PHASE_MODE_CONTINUOUS /\ last_set = _PHASE_MODE_DEFAULT
    /\ sysclk_per_mu = 0 /\ io_update_delay = 0
    /\ bus = [a |-> 160, d |-> 544]
    /\ now = Time(0, 0) /\ trace = <<>> /\ ret = 0 /\ call = NoCall /\ prev = NoCall
    /\ chain = 0
    /\ ipc = "idle" /\ blind = FALSE /\ ilog = <<>> /\ polls = 0
    /\ cfr1 = <<>> /\ cfr2 = <<>>
    /\ xfer = NoXfer /\ cs_open = FALSE
    /\ acall = NoAlign
    /\ peer_phase_mode = PHASE_MODE_CONTINUOUS
    /\ TuneIdleWith(f)

InitBringup == InitBringupWith([kind |-> "any", d0 |-> 0, d1 |-> 0, wmin |-> 0])

NextBringup ==
    \/ \E c \in CfgArgs : Construct(c, 0)
    \/ \E b \in BOOLEAN, aux \in AuxSet : InitCall(b, aux)
    \/ \E lock \in LockWords(cfg.chip_select) : InitPoll(lock)
    \/ TuneStep
    \/ InitAfterTune

SpecBringup == InitBringup /\ [][NextBringup]_vars

---------------------------------------------------------------------------
(* measure_io_update_alignment and tune_io_update_delay                    *)

period == 4
io_max_delay == 8

\* the words a read of the FTW register can give: even and odd
FtwReadSet == {6, 7}

\* the delays measure_io_update_alignment is called with directly
DelayArgSet == {0, 3, 7}

\* set up the ramp generator: autoclear and load on IO_UPDATE, DRG enabled
MeasureSetupSteps ==
    <<StWrite32(_AD9910_REG_CFR1, 49154),
      StWrite32(_AD9910_REG_CFR2, 17367040),
      StWrite64(_AD9910_REG_DRAMPL, -1, 0),
      StWrite32(_AD9910_REG_DRAMPR, 65536),
      StWrite64(_AD9910_REG_DRAMPS, -1, 0)>>

\* start the ramp, disarm autoclear and load, stop the ramp
MeasureStartSteps ==
    <<StPulse(8),
      StWrite32(_AD9910_REG_CFR1, 2),
      StWrite64(_AD9910_REG_DRAMPS, 0, 0)>>

\* mutant: the ramp generator is left enabled
MeasureReadStepsDrgOn(d, w) ==
    <<StPulse(32 - d),
      StRead32(_AD9910_REG_FTW, w),
      StDelay(Us(100)),
      StPulse(8)>>

\* realign, read the effective FTW (w), disable the ramp generator
MeasureReadSteps(d, w) ==
    <<StPulse(32 - d),
      StRead32(_AD9910_REG_FTW, w),
      StDelay(Us(100)),
      StWrite32(_AD9910_REG_CFR2, 16842752),
      StPulse(8)>>

\* at_mu(now_mu() + 0x10 & ~0xf) with the cursor at t
AlignNext(t) == AlignCoarse(TimeAdd(t, 16))

\* where the first and the second pulse of a measurement started at t begin
MeasureT1(t) == AlignNext(EndTime(MeasureSetupSteps, t))
MeasureT2(d, t) == TimeAdd(AlignNext(EndTime(MeasureStartSteps, MeasureT1(t))), d)

\* the events of measure_io_update_alignment(d) called with the cursor at t
MeasureEvents(d, w, t) ==
    Timed(MeasureSetupSteps, t)
        \o Timed(MeasureStartSteps, MeasureT1(t))
        \o Timed(MeasureReadSteps(d, w), MeasureT2(d, t))

\* the cursor after it
MeasureEnd(d, t) == EndTime(MeasureReadSteps(d, 0), MeasureT2(d, t))

\* ftw & 1
Indicator(w) == w % 2

\* mutant: the scan wraps at the period
ProbeDelayModPeriod(d0, j) == IF j = 0 THEN d0 ELSE (d0 + j) % period

\* the delay of probe j of the scan: d0, then (d0 + i + 1) & (max_delay - 1)
ProbeDelay(d0, j) == IF j = 0 THEN d0 ELSE (d0 + j) % io_max_delay

\* mutant: the midpoint is taken from the delay of the flip
MidDelayFromFlip(d0, i) == (d0 + i + 1 + (period \div 2)) % period

\* (d0 + i + period//2) & (period - 1)
MidDelay(d0, i) == (d0 + i + (period \div 2)) % period

\* the first probe of the scan whose indicator differs from that of probe 0,
\* or 0 if there is none; pf maps a delay to the FTW word read back
FirstFlip(d0, pf) ==
    LET js == {j \in 1..(io_max_delay - 1) :
                  Indicator(pf[ProbeDelay(d0, j)]) # Indicator(pf[d0])}
    IN  IF js = {} THEN 0 ELSE CHOOSE j \in js : \A k \in js : j <= k

\* the events of probes j .. n-1 of the scan, from t on
RECURSIVE ProbeChain(_, _, _, _, _)
ProbeChain(d0, pf, j, n, t) ==
    IF j >= n THEN <<>>
    ELSE CHOOSE evs \in
            { MeasureEvents(ProbeDelay(d0, j), pf[ProbeDelay(d0, j)], t)
                  \o ProbeChain(d0, pf, j + 1, n, next) :
              next \in {MeasureEnd(ProbeDelay(d0, j), t)} } : TRUE

\* the cursor after them
RECURSIVE ProbeChainEnd(_, _, _, _)
ProbeChainEnd(d0, j, n, t) ==
    IF j >= n THEN t
    ELSE CHOOSE end \in
            { ProbeChainEnd(d0, j + 1, n, next) :
              next \in {MeasureEnd(ProbeDelay(d0, j), t)} } : TRUE

\* what an alignment operation leaves alone; an alignment call is made with
\* the cursor freshly placed by at_mu, which is called again before the next
\* operation
AlignIdle ==
    /\ call' = NoCall
    /\ ret' = 0
    /\ UNCHANGED <<phase_mode, sysclk_per_mu, io_update_delay, bus, prev, last_set>>
    /\ UNCHANGED tunevars
    /\ HwIdle

Measure(d, w) ==
    /\ chain = 0
    /\ chain' = MaxChain
    /\ trace' = MeasureEvents(d, w, now)
    /\ now' = MeasureEnd(d, now)
    /\ cfr1' = LastWritten(MeasureEvents(d, w, now), _AD9910_REG_CFR1, cfr1)
    /\ cfr2' = LastWritten(MeasureEvents(d, w, now), _AD9910_REG_CFR2, cfr2)
    /\ acall' = [op |-> "measure", d0 |-> d, rd |-> <<w>>, delays |-> <<d>>,
                 outcome |-> "ret", ret |-> Indicator(w)]
    /\ AlignIdle

\* tune_io_update_delay(); pf maps each delay to the FTW word a probe reads
TuneIoUpdateDelay(pf) ==
    LET d0   == io_update_delay
        flip == FirstFlip(d0, pf)
        n    == IF flip = 0 THEN io_max_delay ELSE flip + 1
        evs  == ProbeChain(d0, pf, 0, n, now)
    IN  /\ chain = 0
        /\ chain' = MaxChain
        /\ trace' = evs
        /\ now' = ProbeChainEnd(d0, 0, n, now)
        /\ cfr1' = LastWritten(evs, _AD9910_REG_CFR1, cfr1)
        /\ cfr2' = LastWritten(evs, _AD9910_REG_CFR2, cfr2)
        /\ acall' = [op |-> "tune", d0 |-> d0, rd |-> pf,
                     delays |-> [j \in 1..n |-> ProbeDelay(d0, j - 1)],
                     outcome |-> IF flip = 0 THEN "fail" ELSE "ret",
                     ret |-> IF flip = 0 THEN -1 ELSE MidDelay(d0, flip - 1)]
        /\ AlignIdle

ProbeFns == [0..(io_max_delay - 1) -> FtwReadSet]

NextAlign ==
    \/ \E t \in NowSet : AtMu(t)
    \/ \E ftw \in {1, MinInt32}, pow \in PowSet, asf \in AsfSet, pm \in PhaseModes,
          ref \in {NoRefTime, Time(0, 100)} :
          SetMu(ftw, pow, asf, pm, ref)
    \/ \E d \in DelayArgSet, w \in FtwReadSet : Measure(d, w)
    \/ \E pf \in ProbeFns : TuneIoUpdateDelay(pf)

SpecAlign == Init /\ [][NextAlign]_vars

---------------------------------------------------------------------------
(* All operations of an instance, next to another instance                 *)

\* set_phase_mode called on the other instance
PeerSetPhaseMode(m) ==
    /\ peer_phase_mode' = m
    /\ UNCHANGED setvars
    /\ UNCHANGED tunevars
    /\ UNCHANGED regvars
    /\ UNCHANGED framevars
    /\ UNCHANGED initvars
    /\ UNCHANGED acall

\* the instance is constructed and none of its calls is under way
Sequential == cstate = "ok" /\ ipc \notin {"poll", "tune"} /\ tpc # "run"

\* the default configuration, with and without a SYNC_IN delay seed
FrameCfgs == {[DefaultCfg(1) EXCEPT !.sync_delay_seed = sd] : sd \in SeedArgSet}

\* the probes of the alignment scan read: one word throughout, or a flip at delay 2
FrameProbeFns ==
    {[d \in 0..(io_max_delay - 1) |-> 6],
     [d \in 0..(io_max_delay - 1) |-> IF d < 2 THEN 6 ELSE 7]}

\* the status words in which the PLL of this channel is locked
LockedWords == {w \in LockWords(cfg.chip_select) : Bit(w, cfg.chip_select - 4) = 1}

NextFrame ==
    \/ \E c \in FrameCfgs : Construct(c, 0)
    \/ Sequential /\ \E m \in PhaseModes : PeerSetPhaseMode(m)
    \/ Sequential /\ \E m \in PhaseModes : SetPhaseMode(m)
    \/ Sequential /\ AtMu(Time(0, 21))
    \/ Sequential /\ \E pm \in ModeArgs : SetMu(65536, 0, 16383, pm, NoRefTime)
    \/ Sequential /\ \E b \in BOOLEAN : InitCall(b, AuxDacId)
    \/ \E lock \in LockedWords : InitPoll(lock)
    \/ TuneStep
    \/ InitAfterTune
    \/ Sequential /\ Measure(0, 7)
    \/ Sequential /\ \E pf \in FrameProbeFns : TuneIoUpdateDelay(pf)

\* the SMP_ERR bit is clear at the delay taps 7 and 11
InitFrame == InitBringupWith([kind |-> "pair", d0 |-> 7, d1 |-> 11, wmin |-> 1])

SpecFrame == InitFrame /\ [][NextFrame]_vars

---------------------------------------------------------------------------
(* Properties of set_mu                                                    *)

\* the mode a call is expected to run in: the override if given, else the
\* default the history of set_phase_mode calls gives
ClaimMode == IF call.pm = _PHASE_MODE_DEFAULT THEN call.hist ELSE call.pm

\* the 16-bit phase offset field of the high word of a profile write
PowField(w) == w % 65536

\* low 32 bits of t1 - t2, signed, from the 64-bit difference
WrapDiff(t1, t2) ==
    LET dh == t1.h - t2.h
        dl == t1.l - t2.l
    IN  IF dh % 2 = 0 THEN dl
        ELSE IF dl >= 0 THEN dl + MinInt32 ELSE (dl + 2147483647) + 1

\* byte i of the two's complement word x
Byte(x, i) == (x \div (256 ^ i)) % 256

\* a * b mod 2^32, signed, by long multiplication on bytes
MulRef(a, b) ==
    LET c0 == Byte(a, 0) * Byte(b, 0)
        c1 == Byte(a, 0) * Byte(b, 1) + Byte(a, 1) * Byte(b, 0)
        c2 == Byte(a, 0) * Byte(b, 2) + Byte(a, 1) * Byte(b, 1) + Byte(a, 2) * Byte(b, 0)
        c3 == Byte(a, 0) * Byte(b, 3) + Byte(a, 1) * Byte(b, 2)
              + Byte(a, 2) * Byte(b, 1) + Byte(a, 3) * Byte(b, 0)
        s1 == c1 + (c0 \div 256)
        s2 == c2 + (s1 \div 256)
        s3 == c3 + (s2 \div 256)
        r3 == s3 % 256
    IN  (IF r3 >= 128 THEN r3 - 256 ELSE r3) * 16777216
        + (s2 % 256) * 65536 + (s1 % 256) * 256 + (c0 % 256)

\* ((t - fid) * ftw * sysclk_per_mu) >> 16 on the low 32 bits
ExpectedCorrection(t, fid, ftw) ==
    MulRef(MulRef(WrapDiff(t, fid), ftw), sysclk_per_mu) \div 65536

\* the 16-aligned timeline position at which the call starts
AlignedEntry == [h |-> call.entry.h, l |-> 16 * (call.entry.l \div 16)]

\* the timeline position after the arming write of the call
AfterArm == TimeAdd(AlignedEntry, bus.a + bus.d)

IsCfr1Write(e) == e.op = "write32" /\ e.addr = _AD9910_REG_CFR1
IsProfileWrite(e) == e.op = "write64" /\ e.addr = _AD9910_REG_PR0

\* C1: a set_mu call whose effective phase mode is Continuous issues no write
\* to CFR1 at all; its only register write is the one 64-bit profile write,
\* which is followed by one update pulse.
C1_ContinuousNoCfr1Write ==
    (call.valid /\ ClaimMode = PHASE_MODE_CONTINUOUS) =>
        /\ \A i \in 1..Len(trace) : ~IsCfr1Write(trace[i])
        /\ Len(trace) = 2
        /\ IsProfileWrite(trace[1])
        /\ trace[2].op = "pulse"

C1_Witness ==
    /\ call.valid
    /\ call.pm = PHASE_MODE_CONTINUOUS
    /\ phase_mode = PHASE_MODE_TRACKING
    /\ Len(trace) = 2

\* C2: a set_mu call whose effective mode is Absolute or Tracking issues, in
\* this order and nothing else: one CFR1 write with the accumulator-clear bit
\* set, the profile write, one update pulse, one CFR1 write with the bit clear.
C2_ArmProfilePulseDisarm ==
    (call.valid /\ ClaimMode \in {PHASE_MODE_ABSOLUTE, PHASE_MODE_TRACKING}) =>
        /\ Len(trace) = 4
        /\ IsCfr1Write(trace[1]) /\ Bit(trace[1].lo, 13) = 1
        /\ IsProfileWrite(trace[2])
        /\ trace[3].op = "pulse"
        /\ IsCfr1Write(trace[4]) /\ Bit(trace[4].lo, 13) = 0

C2_Witness ==
    /\ call.valid
    /\ call.pm = _PHASE_MODE_DEFAULT
    /\ call.hist = PHASE_MODE_ABSOLUTE
    /\ Len(trace) = 4
    /\ trace[3].op = "pulse"

C4_ContinuousPowUnchanged ==
    (call.valid /\ ClaimMode = PHASE_MODE_CONTINUOUS) =>
        /\ ret = call.pow
        /\ PowField(trace[1].hi) = call.pow

C4_Witness ==
    /\ call.valid
    /\ ClaimMode = PHASE_MODE_CONTINUOUS
    /\ call.ref = Time(0, 100)
    /\ call.ftw = 65536
    /\ call.pow = 40000
    /\ ret = 40000

\* the fiducial of a Tracking call: time zero when no reference time is given
ClaimFiducial == IF call.ref.h < 0 THEN [h |-> 0, l |-> 0] ELSE call.ref

\* C5 as stated: in Tracking mode the phase word written and returned is
\* pow + (((now - ref_time) * ftw * ticks_per_unit) >> 16) on the low 32 bits,
\* with now the 16-aligned timeline position of the call.
C5_TrackingFromAlignedEntry ==
    (call.valid /\ ClaimMode = PHASE_MODE_TRACKING) =>
        LET expected == call.pow + ExpectedCorrection(AlignedEntry, ClaimFiducial, call.ftw)
        IN  /\ ret = expected
            /\ PowField(trace[2].hi) = expected % 65536

\* C5 amended: the same formula with now the timeline position after the
\* arming CFR1 write (the 16-aligned entry position plus the duration of that
\* write), which is where the profile write is issued; the 16-bit field written
\* holds the value modulo 2^16.
C5_TrackingAmended ==
    (call.valid /\ ClaimMode = PHASE_MODE_TRACKING) =>
        LET expected == call.pow + ExpectedCorrection(AfterArm, ClaimFiducial, call.ftw)
        IN  /\ trace[1].t = AlignedEntry
            /\ trace[2].t = AfterArm
            /\ ret = expected
            /\ PowField(trace[2].hi) = expected % 65536

C5_Witness ==
    /\ call.valid
    /\ ClaimMode = PHASE_MODE_TRACKING
    /\ TimeNeg(call.ref)
    /\ call.entry = Time(1, 7)
    /\ call.ftw = 305419896
    /\ sysclk_per_mu = 4
    /\ ret # call.pow

\* C7: the default phase mode is Continuous after construction and thereafter
\* the argument of the most recent set_phase_mode call, and the mode governing
\* a set_mu call is the per-call override when given and that default otherwise.
C7_ModeIsOverrideOrDefault ==
    /\ phase_mode = (IF last_set = _PHASE_MODE_DEFAULT THEN PHASE_MODE_CONTINUOUS
                     ELSE last_set)
    /\ call.valid => call.mode = ClaimMode
    /\ call.valid => (Len(trace) = 4) = (ClaimMode # PHASE_MODE_CONTINUOUS)

C7_Witness ==
    /\ call.valid
    /\ call.pm = _PHASE_MODE_DEFAULT
    /\ last_set = PHASE_MODE_TRACKING
    /\ call.mode = PHASE_MODE_TRACKING
    /\ Len(trace) = 4

\* ftw is a power of two, as a 32-bit word
IsPow2Word(ftw) == ftw = MinInt32 \/ \E k \in 0..30 : 2 ^ k = ftw

\* m with 2^32 / ftw = 2^m
PeriodLog2(ftw) == IF ftw = MinInt32 THEN 1 ELSE 32 - (CHOOSE k \in 0..30 : 2 ^ k = ftw)

\* now - fiducial of a recorded Tracking call, as [h, l] with |l| < 2^31
TrackedSpan(c) ==
    LET fid == IF c.ref.h < 0 THEN [h |-> 0, l |-> 0] ELSE c.ref
    IN  [h |-> c.entry.h - fid.h, l |-> 16 * (c.entry.l \div 16) - fid.l]

\* the spans of the last two calls differ by a multiple of 2^32 / ftw
SpansDifferByPeriods ==
    LET dh == TrackedSpan(call).h - TrackedSpan(prev).h
        dl == TrackedSpan(call).l - TrackedSpan(prev).l
        m  == PeriodLog2(call.ftw)
    IN  IF m = 32 THEN dl = 0 /\ dh % 2 = 0
        ELSE IF m = 31 THEN dl = 0
        ELSE dl % (2 ^ m) = 0

BothTracking ==
    /\ prev.valid /\ call.valid
    /\ prev.mode = PHASE_MODE_TRACKING /\ call.mode = PHASE_MODE_TRACKING
    /\ prev.ftw = call.ftw /\ prev.pow = call.pow /\ prev.asf = call.asf

\* C6: two Tracking set_mu calls with the same ftw (a power of two) and pow
\* whose now - ref_time differ by a multiple of 2^32 / ftw ticks write the
\* same phase offset word.
C6_TrackingPeriodic ==
    (BothTracking /\ IsPow2Word(call.ftw) /\ SpansDifferByPeriods) =>
        /\ call.out = prev.out
        /\ call.high = prev.high

C6_Witness ==
    /\ BothTracking
    /\ call.ftw = 65536
    /\ SpansDifferByPeriods
    /\ TrackedSpan(call) # TrackedSpan(prev)
    /\ call.out = prev.out
    /\ call.out # call.pow

---------------------------------------------------------------------------
(* Properties of tune_sync_delay                                           *)

\* the delay taps within reach of the search: seed-7 .. seed+6, within 0..31
SearchTaps == {d \in 0..31 : seed - 7 <= d /\ d <= seed + 6}

\* every (in_delay, window) combination the search can probe
AllCombos == {<<d, w>> : d \in SearchTaps, w \in 1..4}

\* the synthetic error-free range has a tap within reach, at a window probed
RangeInReach ==
    /\ errfn.wmin <= 4
    /\ \E d \in SearchTaps : errfn.d0 <= d /\ d <= errfn.d1

TuneDone == tpc \in {"ret", "fail"}

\* C8 as stated: for every seed and every SMP_ERR behaviour that is clear only
\* for the delay taps d0..d1 (at windows >= w_min), tune_sync_delay returns a
\* delay within d0..d1 and a window no larger than the relaxed margin.
C8_ReturnsInRangeForEverySeed ==
    (errfn.kind = "range" /\ errfn.wmin <= 4 /\ TuneDone) =>
        /\ tpc = "ret"
        /\ errfn.d0 <= result[1] /\ result[1] <= errfn.d1
        /\ result[2] <= 3

\* C8 amended: ... tune_sync_delay returns such a pair if some tap of d0..d1
\* lies within seed-7 .. seed+6 (and 0..31) and w_min is at most the largest
\* window (4); otherwise it fails.
C8_ReturnsInRangeWhenInReach ==
    (errfn.kind = "range" /\ TuneDone) =>
        IF RangeInReach
        THEN /\ tpc = "ret"
             /\ errfn.d0 <= result[1] /\ result[1] <= errfn.d1
             /\ 0 <= result[2] /\ result[2] <= 3
        ELSE tpc = "fail"

C8_Witness ==
    /\ errfn.kind = "range"
    /\ tpc = "ret"
    /\ seed = 9
    /\ errfn.d0 = 15
    /\ result = <<15, 3>>

\* C9: tune_sync_delay always terminates, returning or failing, and reads the
\* error flag at most max_window x max_delay times.
C9_TerminatesWithinProbeBudget ==
    /\ [](probes <= max_window * max_delay)
    /\ (tpc = "run") ~> TuneDone

C9_Witness ==
    /\ errfn.kind = "any"
    /\ tpc = "fail"
    /\ probes = 56

\* C10: tune_sync_delay fails exactly when no probe read the error flag
\* clear: it then has probed every in-range tap at every window size and has
\* returned no pair; and it returns only after a clear read.
C10_FailsIffNoClearRead ==
    /\ tpc = "fail" => (/\ ~clear_seen
                        /\ probed = AllCombos
                        /\ probes = Cardinality(AllCombos)
                        /\ result = <<-1, -1>>)
    /\ tpc = "ret" => (clear_seen /\ result # <<-1, -1>>)
    /\ tpc = "run" => ~clear_seen

C10_Witness ==
    /\ errfn.kind = "any"
    /\ tpc = "fail"
    /\ seed = 28
    /\ Cardinality(probed) = 44
    /\ ~clear_seen

\* the (in_delay, window) pairs at which the status was read, in order
IsStaRead(e) == e.op = "sta_read"
ProbeSeq ==
    LET rd == SelectSeq(tlog, IsStaRead)
    IN  [j \in 1..Len(rd) |-> <<rd[j].d, rd[j].w>>]

InTapRange(c) == 0 <= c[1] /\ c[1] <= 31
IsPrefix(p, q) == Len(p) <= Len(q) /\ \A j \in 1..Len(p) : p[j] = q[j]

\* the order as stated: seed, seed+0, seed-1, seed+1, seed-2, seed+2, ...
ClaimedTap(i) == IF i % 2 = 0 THEN seed - (i \div 2) ELSE seed + ((i - 1) \div 2)
ClaimedOrder ==
    SelectSeq([k \in 1..(4 * 14) |->
                  <<ClaimedTap((k - 1) % 14), 4 - ((k - 1) \div 14)>>], InTapRange)

\* the order seed, seed-1, seed+1, seed-2, seed+2, ..., seed+6, seed-7
OutwardTap(i) == IF i % 2 = 1 THEN seed - ((i + 1) \div 2) ELSE seed + (i \div 2)
OutwardOrder ==
    SelectSeq([k \in 1..(4 * 14) |->
                  <<OutwardTap((k - 1) % 14), 4 - ((k - 1) \div 14)>>], InTapRange)

\* the taps within reach at which a "range" or "pair" behaviour reads clear
ClearTaps ==
    IF errfn.kind = "range" THEN {d \in SearchTaps : errfn.d0 <= d /\ d <= errfn.d1}
    ELSE IF errfn.kind = "pair" THEN SearchTaps \cap {errfn.d0, errfn.d1}
    ELSE {}

Dist(d) == IF d >= seed THEN d - seed ELSE seed - d

\* the tap returned is the clear tap nearest the seed, the lower of two
\* equally near ones
NearestLowerFirst ==
    (errfn.kind # "any" /\ tpc = "ret") =>
        /\ result[1] \in ClearTaps
        /\ \A d \in ClearTaps :
              \/ Dist(result[1]) < Dist(d)
              \/ Dist(result[1]) = Dist(d) /\ result[1] <= d

\* C21 as stated: tune_sync_delay probes the windows from the maximum down to
\* 1 and, for each window, the taps seed, seed+0, seed-1, seed+1, seed-2,
\* seed+2, ..., leaving out the taps outside 0..31; of two error-free taps the
\* one nearer the seed is chosen, of two equally near ones the lower.
C21_ProbesSeedTwice ==
    /\ IsPrefix(ProbeSeq, ClaimedOrder)
    /\ NearestLowerFirst

\* C21 amended: ... for each window the taps seed, seed-1, seed+1, seed-2,
\* seed+2, ..., seed+6, seed-7, each once, leaving out the taps outside 0..31
\* without any bus access for them; a failing call has probed the whole order.
C21_ProbesOutwardFromSeed ==
    /\ IsPrefix(ProbeSeq, OutwardOrder)
    /\ tpc = "fail" => ProbeSeq = OutwardOrder
    /\ Len(tlog) \in {3 * Len(ProbeSeq), 3 * Len(ProbeSeq) + 2}
    /\ NearestLowerFirst

C21_Witness ==
    /\ tpc = "ret"
    /\ seed = 9
    /\ errfn.kind = "pair" /\ errfn.d0 = 7 /\ errfn.d1 = 11
    /\ ProbeSeq = <<<<9, 4>>, <<8, 4>>, <<10, 4>>, <<7, 4>>>>
    /\ result[1] = 7

\* the positions in the log of the status reads that had the error flag clear
ClearReads == {i \in 1..Len(tlog) : tlog[i].op = "sta_read" /\ tlog[i].err = 0}

ClearCombos ==
    {c \in AllCombos : errfn.d0 <= c[1] /\ c[1] <= errfn.d1 /\ c[2] >= errfn.wmin}

\* the combination the search stopped at, before the window was relaxed
Selected == <<result[1], result[2] + min_window>>

\* C20: among the (delay, window) combinations of its search region at which
\* the error flag is clear, tune_sync_delay selects one with the smallest
\* window size, before relaxing it by one step.
C20_SelectsSmallestClearWindow ==
    (errfn.kind = "range" /\ tpc = "ret") =>
        /\ Selected \in ClearCombos
        /\ \A c \in ClearCombos : Selected[2] <= c[2]

---------------------------------------------------------------------------
(* Properties of the bus framer                                            *)

\* the byte an 8-bit phase puts on the bus: the top byte of the word written
AddressByte(ph) == Byte(ph.data, 3)

\* SPI_END is set on the last phase and on no earlier one
EndOnLastOnly(phases) ==
    \A i \in 1..Len(phases) : phases[i].end = (i = Len(phases))

\* C17: write32 issues two bus phases (an 8-bit address phase carrying the 7-bit
\* address with the read flag clear, then the 32-bit data phase) and write64
\* three (address, high word, low word); SPI_END is set on the last phase only,
\* and the bus is never left inside an open transaction.
C17_WritesFramedAndClosed ==
    /\ xfer.op = "write32" =>
          /\ Len(xfer.phases) = 2
          /\ xfer.phases[1].len = 8
          /\ AddressByte(xfer.phases[1]) = xfer.addr
          /\ Bit(xfer.phases[1].data, 31) = 0
          /\ xfer.phases[2].len = 32
          /\ xfer.phases[2].data = xfer.lo
          /\ \A i \in 1..2 : ~xfer.phases[i].input
          /\ EndOnLastOnly(xfer.phases)
    /\ xfer.op = "write64" =>
          /\ Len(xfer.phases) = 3
          /\ xfer.phases[1].len = 8
          /\ AddressByte(xfer.phases[1]) = xfer.addr
          /\ Bit(xfer.phases[1].data, 31) = 0
          /\ xfer.phases[2].len = 32 /\ xfer.phases[2].data = xfer.hi
          /\ xfer.phases[3].len = 32 /\ xfer.phases[3].data = xfer.lo
          /\ \A i \in 1..3 : ~xfer.phases[i].input
          /\ EndOnLastOnly(xfer.phases)
    /\ ~cs_open

C17_Witness ==
    /\ xfer.op = "write64"
    /\ xfer.addr = _AD9910_REG_PR0
    /\ xfer.hi = -1
    /\ xfer.phases[3].end
    /\ cfr1 = <<8194>>
    /\ ~cs_open

\* C18: read32 issues an 8-bit address phase whose byte is the register address
\* with the top bit set, then one 32-bit input phase carrying SPI_END, and
\* returns the word shifted in; no address of the register map has the top
\* bit of the byte set.
C18_ReadFramedWithFlag ==
    /\ xfer.op = "read32" =>
          /\ Len(xfer.phases) = 2
          /\ xfer.phases[1].len = 8
          /\ ~xfer.phases[1].input
          /\ AddressByte(xfer.phases[1]) = xfer.addr + 128
          /\ AddressByte(xfer.phases[1]) % 128 = xfer.addr
          /\ xfer.phases[2].len = 32
          /\ xfer.phases[2].input
          /\ EndOnLastOnly(xfer.phases)
          /\ xfer.ret = xfer.shifted
          /\ ~cs_open
    /\ \A a \in RegisterMap : 0 <= a /\ a < 128

C18_Witness ==
    /\ xfer.op = "read32"
    /\ xfer.addr = _AD9910_REG_RAM
    /\ xfer.shifted = MinInt32
    /\ xfer.ret = MinInt32
    /\ AddressByte(xfer.phases[1]) = 150

---------------------------------------------------------------------------
(* Properties of construction and init                                     *)

\* nothing has been issued to the hardware
HardwareUntouched ==
    /\ ilog = <<>> /\ trace = <<>> /\ xfer = NoXfer
    /\ cfr1 = <<>> /\ cfr2 = <<>>
    /\ msync = <<-1, -1>> /\ probes = 0 /\ clears = 0
    /\ ipc = "idle" /\ tpc = "idle"

\* the system clock refclk*N/4 lies outside the band of the selected VCO range
OutsideVcoBand ==
    /\ cfg.pll_vco \in 0..5
    /\ LET band == VcoBands[cfg.pll_vco + 1]
       IN  cfg.refclk * cfg.pll_n < 4 * band[1] \/ cfg.refclk * cfg.pll_n > 4 * band[2]

\* C13: construction fails for a PLL multiplier outside 12..127, for a system
\* clock outside the band of the selected VCO range and for refclk/4 > 60 MHz,
\* and a failed construction has issued nothing to the bus or the pulse line.
C13_InvalidConfigFailsUntouched ==
    cstate # "none" =>
        /\ (cfg.pll_n < 12 \/ cfg.pll_n > 127) => cstate = "failed"
        /\ OutsideVcoBand => cstate = "failed"
        /\ cfg.refclk > 240 => cstate = "failed"
        /\ cstate = "failed" => HardwareUntouched

C13_Witness ==
    /\ cstate = "failed"
    /\ cfg.pll_n = 10 /\ cfg.refclk = 200 /\ cfg.pll_vco = 0
    /\ cfg.ref_period = 4 /\ cfg.chip_select = 4
    /\ ~OutsideVcoBand
    /\ HardwareUntouched

\* positions in the init log of the events with operation op
LogIdx(op) == {i \in 1..Len(ilog) : ilog[i].op = op}

InitFailed == ipc \in {"fail_id", "fail_lock", "fail_sync"}

\* C14 as stated: init(blind=true) reads neither the identity register nor the
\* status register and never fails, for every valid configuration.
C14_BlindInitNeverReadsNorFails ==
    (blind /\ ipc # "idle") =>
        /\ LogIdx("read32") = {}
        /\ LogIdx("sta_read") = {} /\ polls = 0 /\ probes = 0
        /\ ~InitFailed

\* C14 amended: init(blind=true) makes no identity read and no lock poll; when
\* no sync-delay seed is configured it reads no status at all and completes
\* after its fixed waits (100 ms, then 1 ms); when a seed is configured it runs
\* tune_sync_delay after the 100 ms wait and fails only if that search fails.
C14_BlindInitAmended ==
    (blind /\ ipc # "idle") =>
        /\ LogIdx("read32") = {}
        /\ LogIdx("sta_read") = {} /\ polls = 0
        /\ ipc \notin {"fail_id", "fail_lock", "poll"}
        /\ \E i \in LogIdx("delay") : ilog[i].lo = Ms(100)
        /\ IF cfg.sync_delay_seed < 0
           THEN /\ ipc = "done"
                /\ probes = 0
                /\ ilog[Len(ilog)].op = "delay" /\ ilog[Len(ilog)].lo = Ms(1)
                /\ ilog[Len(ilog) - 1].op = "delay" /\ ilog[Len(ilog) - 1].lo = Ms(100)
           ELSE /\ ipc \in {"tune", "done", "fail_sync"}
                /\ seed = cfg.sync_delay_seed
                /\ ipc = "fail_sync" => tpc = "fail"
                /\ ipc = "done" => tpc = "ret"

C14_Witness ==
    /\ blind /\ ipc = "done"
    /\ cfg.sync_delay_seed < 0
    /\ cfg.chip_select = 7
    /\ Len(ilog) = 11
    /\ probes = 0

\* C15: non-blind init fails on the identity check exactly when the low byte of
\* the AUX_DAC word read back is not 0x7f; the register is read once, and the
\* failed read is the last thing the call does: no CFR2 or CFR3 write, no
\* pulse, no status read follows it.
C15_IdentityMismatchTerminal ==
    (~blind /\ ipc # "idle") =>
        /\ LogIdx("read32") = {4}
        /\ ilog[4].addr = _AD9910_REG_AUX_DAC
        /\ (ipc = "fail_id") = (Byte(ilog[4].lo, 0) # 127)
        /\ ipc = "fail_id" =>
              /\ Len(ilog) = 4
              /\ \A i \in 1..Len(ilog) :
                    ~(ilog[i].op = "write32"
                      /\ ilog[i].addr \in {_AD9910_REG_CFR2, _AD9910_REG_CFR3})
              /\ LogIdx("pulse") = {2}
              /\ LogIdx("sta_read") = {} /\ polls = 0 /\ probes = 0
              /\ cfr2 = <<>>

C15_Witness ==
    /\ ~blind /\ ipc = "fail_id"
    /\ ilog[4].lo = 255
    /\ Len(ilog) = 4

\* this channel's lock bit in the status read logged at position i
LockBitAt(i) == Bit(ilog[i].lo, cfg.chip_select - 4)

\* C16: the lock wait of non-blind init reads the status at most 100 times,
\* each read followed by a 1 ms delay and then directly by the next read; it
\* stops at the first read with this channel's lock bit set, and fails with
\* the lock timeout exactly when the bit was clear in all 100 reads.
C16_LockPollBounded ==
    (~blind /\ ipc # "idle") =>
        /\ polls <= 100
        /\ Cardinality(LogIdx("sta_read")) = polls
        /\ \A i \in LogIdx("sta_read") :
              /\ i < Len(ilog)
              /\ ilog[i + 1].op = "delay" /\ ilog[i + 1].lo = Ms(1)
              /\ i # 12 => ilog[i - 2].op = "sta_read"
        /\ (polls > 0) => 12 \in LogIdx("sta_read")
        /\ ipc = "fail_lock" => polls = 100
        /\ cfg.chip_select >= 4 =>
              /\ \A i \in LogIdx("sta_read") :
                    LockBitAt(i) = 1 =>
                        /\ \A j \in LogIdx("sta_read") : j <= i
                        /\ ipc \in {"tune", "done", "fail_sync"}
              /\ ipc \in {"tune", "done", "fail_sync"} =>
                    \E i \in LogIdx("sta_read") : LockBitAt(i) = 1
              /\ (ipc = "fail_lock") =
                    (polls = 100 /\ \A i \in LogIdx("sta_read") : LockBitAt(i) = 0)

C16_Witness ==
    /\ ~blind /\ ipc = "fail_lock"
    /\ cfg.chip_select = 7
    /\ polls = 100
    /\ \A i \in LogIdx("sta_read") : ilog[i].lo = 7

---------------------------------------------------------------------------
(* Properties of the IO_UPDATE alignment scan                              *)

\* the indicator the probe function of the last scan gives at delay d
ProbeBit(d) == acall.rd[d] % 2

\* the probe function is one bit on the delays below k and the other on k .. 3
StepAt(k) ==
    /\ \A d \in 0..(k - 1) : ProbeBit(d) = ProbeBit(0)
    /\ \A d \in k..3 : ProbeBit(d) # ProbeBit(0)

\* C11 as stated: from starting delay 0, with a probe that flips at delay k
\* (k in 1..3), tune_io_update_delay returns (k + 2) mod 4.
C11_ReturnsFlipPlusTwo ==
    (acall.op = "tune" /\ acall.d0 = 0) =>
        \A k \in 1..3 :
            StepAt(k) => (acall.outcome = "ret" /\ acall.ret = (k + 2) % 4)

\* C11 amended: ... tune_io_update_delay returns (k + 1) mod 4, having probed
\* the delays 0 .. k.
C11_ReturnsFlipPlusOne ==
    (acall.op = "tune" /\ acall.d0 = 0) =>
        \A k \in 1..3 :
            StepAt(k) =>
                /\ acall.outcome = "ret"
                /\ acall.ret = (k + 1) % 4
                /\ acall.delays = [j \in 1..(k + 1) |-> j - 1]

C11_Witness ==
    /\ acall.op = "tune" /\ acall.d0 = 0
    /\ StepAt(3)
    /\ acall.outcome = "ret"
    /\ acall.ret = 0

\* every probe of the last scan gave the indicator of the first one
NoFlipSeen ==
    \A j \in 1..Len(acall.delays) : ProbeBit(acall.delays[j]) = ProbeBit(acall.d0)

\* C12 as stated: the scan probes successive delays modulo the period 4, fails
\* when the 4 delays of one period gave no differing indicator, and never
\* probes more than one period.
C12_ScansOnePeriod ==
    acall.op = "tune" =>
        /\ Len(acall.delays) <= 4
        /\ \A j \in 1..Len(acall.delays) :
              acall.delays[j] = (acall.d0 + j - 1) % 4
        /\ (acall.outcome = "fail") = (Len(acall.delays) = 4 /\ NoFlipSeen)

\* C12 amended: the scan probes the successive delays d0, d0+1, ... modulo 8
\* (two periods), stops at the first probe that differs from the first one,
\* and fails exactly when all 8 probes agree; it never makes more than 8.
C12_ScansTwoPeriods ==
    acall.op = "tune" =>
        /\ Len(acall.delays) <= 8
        /\ \A j \in 1..Len(acall.delays) :
              acall.delays[j] = (acall.d0 + j - 1) % 8
        /\ \A j \in 1..(Len(acall.delays) - 1) :
              ProbeBit(acall.delays[j]) = ProbeBit(acall.d0)
        /\ (acall.outcome = "fail") = (Len(acall.delays) = 8 /\ NoFlipSeen)
        /\ acall.outcome = "ret" =>
              /\ ~NoFlipSeen
              /\ 0 <= acall.ret /\ acall.ret < 4
        /\ Cardinality({i \in 1..Len(trace) : trace[i].op = "read32"})
              = Len(acall.delays)

C12_Witness ==
    /\ acall.op = "tune"
    /\ acall.outcome = "fail"
    /\ acall.d0 = 3
    /\ acall.delays = <<3, 4, 5, 6, 7, 0, 1, 2>>

\* a CFR1 value with an autoclear bit (phase accumulator, ramp accumulator) or
\* the load-on-update bit of the ramp generator set
Cfr1Armed(v) == Bit(v, 13) = 1 \/ Bit(v, 14) = 1 \/ Bit(v, 15) = 1

\* a CFR2 value with the ramp generator enabled
Cfr2RampOn(v) == Bit(v, 19) = 1

ArmsAt(i) ==
    /\ trace[i].op = "write32"
    /\ \/ trace[i].addr = _AD9910_REG_CFR1 /\ Cfr1Armed(trace[i].lo)
       \/ trace[i].addr = _AD9910_REG_CFR2 /\ Cfr2RampOn(trace[i].lo)

DisarmsAt(j, addr) ==
    /\ trace[j].op = "write32" /\ trace[j].addr = addr
    /\ ~Cfr1Armed(trace[j].lo) /\ ~Cfr2RampOn(trace[j].lo)

\* C19: after every completed set_mu, measure_io_update_alignment and
\* tune_io_update_delay call, returned or failed, nothing is left armed: each
\* arming write of the call is followed in the call by a disarming write to the
\* same register, and the last value written to CFR1 has the autoclear bits
\* clear and the last one written to CFR2 has the ramp generator disabled.
C19_NothingLeftArmed ==
    /\ cfr1 # <<>> => ~Cfr1Armed(cfr1[1])
    /\ cfr2 # <<>> => ~Cfr2RampOn(cfr2[1])
    /\ \A i \in 1..Len(trace) :
          ArmsAt(i) => \E j \in (i + 1)..Len(trace) : DisarmsAt(j, trace[i].addr)

C19_Witness ==
    /\ acall.op = "tune" /\ acall.outcome = "fail"
    /\ \E i \in 1..Len(trace) : ArmsAt(i)
    /\ cfr1 = <<2>>
    /\ cfr2 = <<16842752>>

---------------------------------------------------------------------------
(* Properties of init: the order of its steps                              *)

\* the number of entries the log of init had when tune_sync_delay was entered
LogLenAtTune == IF ipc = "done" THEN Len(ilog) - 1 ELSE Len(ilog)

\* the log of init ends, at entry k, with the completed lock wait: the 100 ms
\* wait of blind init, or a status read with the lock bit set and its 1 ms delay
LockWaitDoneAt(k) ==
    IF blind
    THEN ilog[k].op = "delay" /\ ilog[k].lo = Ms(100)
    ELSE /\ ilog[k].op = "delay" /\ ilog[k].lo = Ms(1)
         /\ ilog[k - 1].op = "sta_read"
         /\ cfg.chip_select >= 4 => LockBitAt(k - 1) = 1

\* C23: init runs tune_sync_delay exactly when a seed is configured
\* (sync_delay_seed >= 0), with that seed, and only once the lock wait is
\* over; when the search succeeds MSYNC is left holding its result, and
\* without a seed init never writes MSYNC.
C23_TunesIffSeedConfigured ==
    /\ tpc # "idle" =>
          /\ cfg.sync_delay_seed >= 0
          /\ seed = cfg.sync_delay_seed
          /\ ipc \in {"tune", "done", "fail_sync"}
          /\ LockWaitDoneAt(LogLenAtTune)
    /\ (ipc \in {"tune", "done", "fail_sync"} /\ cfg.sync_delay_seed >= 0) => tpc # "idle"
    /\ ipc = "tune" => tpc \in {"run", "ret", "fail"}
    /\ (ipc = "done" /\ cfg.sync_delay_seed >= 0) =>
          /\ tpc = "ret"
          /\ msync = result
          /\ tlog[Len(tlog) - 1] = [op |-> "set_sync", d |-> result[1], w |-> result[2],
                                    err |-> 0]
    /\ ipc = "fail_sync" => tpc = "fail"
    /\ cfg.sync_delay_seed < 0 =>
          /\ msync = <<-1, -1>> /\ tlog = <<>>
          /\ \A i \in LogIdx("write32") : ilog[i].addr # _AD9910_REG_MSYNC

C23_Witness ==
    /\ ipc = "done"
    /\ ~blind
    /\ cfg.sync_delay_seed = 9
    /\ polls = 3
    /\ msync = <<8, 3>>

\* the position of the k-th smallest element of the set of positions ws
Nth(ws, k) == CHOOSE i \in ws : Cardinality({j \in ws : j < i}) = k - 1

\* the position in the log of init of its k-th register write
WriteAt(k) == Nth(LogIdx("write32"), k)

\* the PFD reset bit of a CFR3 word
PfdReset(v) == Bit(v, 10)

\* C24: every init run writes CFR1 (bus mode), reads the identity when not
\* blind, then writes CFR2, CFR3 with the PFD reset bit set and CFR3 with it
\* clear, each write directly followed by an IO_UPDATE pulse; the lock poll or
\* the blind wait starts only after the pulse of the last CFR3 write, and that
\* last CFR3 write has the reset bit clear.
C24_InitWriteOrder ==
    LET ws == LogIdx("write32")
        rs == LogIdx("read32")
        w1 == Nth(ws, 1)
        w2 == Nth(ws, 2)
        w3 == Nth(ws, 3)
        w4 == Nth(ws, 4)
    IN  /\ ipc = "fail_id" =>
              /\ Cardinality(ws) = 1
              /\ ilog[w1].addr = _AD9910_REG_CFR1
              /\ ilog[w1 + 1].op = "pulse"
              /\ \A i \in rs : i > w1 + 1
        /\ ipc \notin {"idle", "fail_id"} =>
              /\ Cardinality(ws) = 4
              /\ ilog[w1].addr = _AD9910_REG_CFR1
              /\ ilog[w2].addr = _AD9910_REG_CFR2
              /\ ilog[w3].addr = _AD9910_REG_CFR3
              /\ ilog[w4].addr = _AD9910_REG_CFR3
              /\ \A i \in ws : ilog[i + 1].op = "pulse"
              /\ PfdReset(ilog[w3].lo) = 1
              /\ PfdReset(ilog[w4].lo) = 0
              /\ ilog[w3].lo = ilog[w4].lo + 1024
              /\ blind => rs = {}
              /\ ~blind =>
                    /\ Cardinality(rs) = 1
                    /\ \A i \in rs : w1 + 1 < i /\ i < w2
              /\ \A i \in w1..(w4 + 1) :
                    /\ ilog[i].op # "sta_read"
                    /\ ~(ilog[i].op = "delay" /\ ilog[i].lo = Ms(100))
              /\ blind => (ilog[w4 + 2].op = "delay" /\ ilog[w4 + 2].lo = Ms(100))
              /\ (~blind /\ polls = 0) => Len(ilog) = w4 + 1
              /\ (~blind /\ polls > 0) => ilog[w4 + 2].op = "sta_read"

C24_Witness ==
    /\ ipc = "done"
    /\ ~blind
    /\ polls = 2
    /\ cfg.pll_n = 40 /\ cfg.pll_vco = 5
    /\ WriteAt(4) = 10
    /\ ilog[10].lo = ilog[8].lo - 1024

---------------------------------------------------------------------------
(* Properties of set_mu: the timeline                                      *)

Aligned16(t) == t.l % 16 = 0

\* a <= b on the timeline
TimeLeq(a, b) == a.h < b.h \/ (a.h = b.h /\ a.l <= b.l)

\* the update pulse and the last event of the last set_mu call
PulseEv == trace[CHOOSE i \in 1..Len(trace) : trace[i].op = "pulse"]
LastEv == trace[Len(trace)]

\* C25: for every entry time, phase mode and IO_UPDATE delay, the cursor is a
\* multiple of 16 when set_mu issues its first bus transaction (the entry time
\* rounded down), and again when it issues the disarming CFR1 write or, in
\* Continuous mode, returns.
C25_AlignedBeforeAndAfter ==
    call.valid =>
        /\ Aligned16(trace[1].t)
        /\ trace[1].op \in {"write32", "write64"}
        /\ trace[1].t.h = call.entry.h
        /\ trace[1].t.l = call.entry.l - (call.entry.l % 16)
        /\ IF ClaimMode = PHASE_MODE_CONTINUOUS
           THEN Aligned16(now)
           ELSE /\ IsCfr1Write(LastEv)
                /\ Aligned16(LastEv.t)

C25_Witness ==
    /\ call.valid
    /\ call.entry = Time(0, 65557)
    /\ io_update_delay = 3
    /\ ClaimMode = PHASE_MODE_TRACKING
    /\ trace[1].t = Time(0, 65552)
    /\ LastEv.t = Time(0, 65584)

\* C26 as stated: in an Absolute or Tracking call the disarming CFR1 write is
\* never issued at an earlier timeline position than the start of the update
\* pulse, whatever the entry time, the bus durations and the IO_UPDATE delay.
C26_DisarmNotBeforePulse ==
    (call.valid /\ ClaimMode \in {PHASE_MODE_ABSOLUTE, PHASE_MODE_TRACKING}) =>
        TimeLeq(PulseEv.t, LastEv.t)

\* C26 amended: ... the disarming CFR1 write is issued at the end of the
\* 8-unit update pulse rounded down to a multiple of 16: at most 7 units
\* before the start of the pulse and at most 8 after it, and not before the
\* start exactly when the start is a multiple of 16 or 8..15 units past one.
C26_DisarmAtAlignedPulseEnd ==
    (call.valid /\ ClaimMode \in {PHASE_MODE_ABSOLUTE, PHASE_MODE_TRACKING}) =>
        /\ IsCfr1Write(LastEv)
        /\ LastEv.t.h = PulseEv.t.h
        /\ LastEv.t.l = (PulseEv.t.l + 8) - ((PulseEv.t.l + 8) % 16)
        /\ PulseEv.t.l - 7 <= LastEv.t.l /\ LastEv.t.l <= PulseEv.t.l + 8
        /\ TimeLeq(PulseEv.t, LastEv.t) = (PulseEv.t.l % 16 \in {0} \cup 8..15)

C26_Witness ==
    /\ call.valid
    /\ ClaimMode = PHASE_MODE_ABSOLUTE
    /\ io_update_delay = 2
    /\ PulseEv.t.l % 16 = 7
    /\ LastEv.t.l = PulseEv.t.l - 7

---------------------------------------------------------------------------
(* Properties of the default phase mode                                    *)

\* C27: the default phase mode of an instance changes only in a
\* set_phase_mode call on that instance, which does nothing else: set_mu
\* (with or without a mode of its own), init, tune_sync_delay, the alignment
\* calls and set_phase_mode on another instance leave it as it is, and
\* set_phase_mode leaves the default of the other instance as it is.
C27_PhaseModeFrame ==
    [][/\ phase_mode' # phase_mode =>
             /\ last_set' = phase_mode'
             /\ UNCHANGED <<peer_phase_mode, now, trace, call, acall, cfr1, cfr2, ilog,
                            tlog, ipc, tpc, msync, xfer>>
       /\ peer_phase_mode' # peer_phase_mode => phase_mode' = phase_mode
       /\ last_set' = last_set => phase_mode' = phase_mode]_vars

C27_Witness ==
    /\ phase_mode = PHASE_MODE_TRACKING
    /\ peer_phase_mode = PHASE_MODE_ABSOLUTE
    /\ ipc = "done"
    /\ tpc = "ret"
    /\ acall.op = "tune"
    /\ cfr1 = <<2>>

---------------------------------------------------------------------------
(* Properties of set_mu: the fields of the profile word                    *)

\* the bits 16 and above of a 32-bit word, as a signed number
UpperField(w) == (w - (w % 65536)) \div 65536

\* C28: for every phase mode, reference time and in-range asf, pow and ftw,
\* the high word of the profile write of set_mu holds the requested amplitude
\* scale factor in its bits 16 and above and the phase word within its low
\* 16 bits: the Tracking / Absolute phase correction never reaches the
\* amplitude field.
C28_AmplitudeFieldIntact ==
    call.valid =>
        \A i \in 1..Len(trace) :
            IsProfileWrite(trace[i]) =>
                /\ UpperField(trace[i].hi) = call.asf
                /\ trace[i].hi = call.asf * 65536 + PowField(ret)

---------------------------------------------------------------------------
(* Properties of the per-channel status bit                                *)

\* C29: for every chip_select the constructor accepts, the bit index
\* chip_select - 4, used on the PLL lock field by the lock wait of init and
\* on the SMP_ERR field by tune_sync_delay, is within 0..3 whenever a status
\* read is tested with it.
C29_ChannelBitIndexValid ==
    (cstate = "ok" /\ (polls > 0 \/ probes > 0)) =>
        (0 <= cfg.chip_select - 4 /\ cfg.chip_select - 4 <= 3)

====
